---- MODULE Spec2Model ----
(***************************************************************************)
(* Model of finetune.py: a linear script that validates the base-model     *)
(* identifier, loads preprocessors / dataset / model, runs the external    *)
(* trainer with the SavePeftModelCallback checkpoint callback, and finally *)
(* saves the model under a local_rank guard.                               *)
(*                                                                         *)
(* Strings that the code inspects or builds (paths, model identifiers,     *)
(* transcripts) are sequences of one-character strings, so that            *)
(* os.path.dirname, os.path.join and the f-string of line 103 are          *)
(* computed character by character as posixpath computes them.             *)
(***************************************************************************)
EXTENDS Integers, Sequences, FiniteSets, TLC

(* ------------------------------ bounds -------------------------------- *)
MaxEpochs == 2
MaxStepsPerEpoch == 2
MaxNodes == 2
MaxProcsPerNode == 2
MaxBatch == 2

(* --------------------------- string helpers --------------------------- *)
SLASH == "/"

RECURSIVE rfind(_, _, _)
\* str.rfind(ch) restricted to s[1..i]: the last index holding ch, 0 if none
\* (1-based; Python's -1 corresponds to 0 here).
rfind(s, ch, i) ==
    IF i = 0 THEN 0
    ELSE IF s[i] = ch THEN i
    ELSE rfind(s, ch, i - 1)

RECURSIVE rstrip(_, _)
\* str.rstrip(ch)
rstrip(s, ch) ==
    IF s # <<>> /\ s[Len(s)] = ch THEN rstrip(SubSeq(s, 1, Len(s) - 1), ch)
    ELSE s

AllSlashes(s) == \A k \in 1..Len(s) : s[k] = SLASH

\* variant of dirname: the text before the first slash
dirname_first(p) ==
    LET i == CHOOSE k \in 0..Len(p) :
                 /\ (k < Len(p) => p[k + 1] = SLASH)
                 /\ \A j \in 1..k : p[j] # SLASH
    IN  IF i = Len(p) THEN <<>> ELSE SubSeq(p, 1, i)

\* posixpath.dirname
dirname(p) ==
    LET i == rfind(p, SLASH, Len(p))
        head == SubSeq(p, 1, i)
    IN  IF head # <<>> /\ ~AllSlashes(head) THEN rstrip(head, SLASH) ELSE head

\* posixpath.join for two components
join(a, b) ==
    IF b # <<>> /\ b[1] = SLASH THEN b
    ELSE IF a = <<>> \/ a[Len(a)] = SLASH THEN a \o b
    ELSE a \o <<SLASH>> \o b

DigitChar == <<"0", "1", "2", "3", "4", "5", "6", "7", "8", "9">>

RECURSIVE str(_)
\* decimal rendering of a non-negative integer, as the f-string of line 103
str(n) ==
    IF n < 10 THEN <<DigitChar[n + 1]>>
    ELSE str(n \div 10) \o <<DigitChar[(n % 10) + 1]>>

(* --------------------------- program constants ------------------------ *)
OPENAI == <<"o", "p", "e", "n", "a", "i">>
\* training_args.output_dir, fixed by line 78
output_dir == <<"o", "u", "t", "p", "u", "t">>
\* transformers.trainer_utils.PREFIX_CHECKPOINT_DIR
PREFIX_CHECKPOINT_DIR == <<"c", "h", "e", "c", "k", "p", "o", "i", "n", "t">>
ADAPTER_MODEL == <<"a", "d", "a", "p", "t", "e", "r", "_", "m", "o", "d", "e", "l">>
PYTORCH_MODEL_BIN == <<"p", "y", "t", "o", "r", "c", "h", "_", "m", "o", "d", "e", "l", ".", "b", "i", "n">>

\* values of --base_model
BaseModels ==
    { <<"o", "p", "e", "n", "a", "i", "/", "w">>,
      <<"o", "p", "e", "n", "a", "i", "/", "/", "w">>,
      <<"w">>,
      <<"f", "b", "/", "w">>,
      <<"o", "p", "e", "n", "a", "i", "/", "x", "/", "w">>,
      <<"/", "o", "p", "e", "n", "a", "i", "/", "w">> }

\* values of --output_path (the first is the default of line 22)
OutputPaths ==
    { <<"m", "o", "d", "e", "l", "s", "/", "l", "o", "r", "a">>,
      <<"e", "l", "s", "e">> }

(* ------------------------ preprocessing (46-53) ----------------------- *)
\* Audio(sampling_rate=16000) of line 58
SAMPLING_RATE == 16000
\* number of samples the feature extractor pads or trims every waveform to
N_SAMPLES == 2
\* tokenizer special ids: start-of-transcript prefix and end-of-text suffix
SOT == 90
EOT == 91

Alphabet == <<"h", "i", "o">>

Arrays == { <<3>>, <<2, 1, 1>> }
Audios == { [array |-> a, sampling_rate |-> SAMPLING_RATE] : a \in Arrays }
Sentences == { <<"h", "i">>, <<"o", "h", "o">> }

\* pad with zeros / truncate to exactly n samples
PadOrTrim(x, n) == [k \in 1..n |-> IF k <= Len(x) THEN x[k] ELSE 0]

\* feature_extractor(array, sampling_rate=...).input_features[0]:
\* a fixed-size array computed from the padded waveform (power per sample)
feature_extractor(array, sampling_rate) ==
    LET x == PadOrTrim(array, N_SAMPLES)
    IN  [k \in 1..N_SAMPLES |-> x[k] * x[k]]

CharId(c) == CHOOSE k \in 1..Len(Alphabet) : Alphabet[k] = c

\* tokenizer(s).input_ids: special prefix, one id per character, end-of-text
tokenizer(s) == <<SOT>> \o [k \in 1..Len(s) |-> CharId(s[k])] \o <<EOT>>

RECURSIVE FeaturesOf_reversed(_)
\* variant of FeaturesOf: results collected in reverse order
FeaturesOf_reversed(audio) ==
    IF audio = <<>> THEN <<>>
    ELSE FeaturesOf_reversed(Tail(audio))
         \o <<feature_extractor(Head(audio).array, Head(audio).sampling_rate)>>

RECURSIVE FeaturesOf(_)
\* the list comprehension of lines 49-50, in iteration order
FeaturesOf(audio) ==
    IF audio = <<>> THEN <<>>
    ELSE <<feature_extractor(Head(audio).array, Head(audio).sampling_rate)>>
         \o FeaturesOf(Tail(audio))

RECURSIVE LabelsOf(_)
\* the list comprehension of line 52, in iteration order
LabelsOf(sentence) ==
    IF sentence = <<>> THEN <<>>
    ELSE <<tokenizer(Head(sentence))>> \o LabelsOf(Tail(sentence))

prepare_dataset(batch) ==
    [input_features |-> FeaturesOf(batch.audio), labels |-> LabelsOf(batch.sentence)]

\* batches the dataset hands to the transform: columns of equal length
Batches ==
    UNION { { [audio |-> a, sentence |-> s] :
                a \in [1..n -> Audios], s \in [1..n -> Sentences] } : n \in 0..MaxBatch }

(* ------------------------ filesystem operations ----------------------- *)
WEIGHTS_NAME == <<"a", "d", "a", "p", "t", "e", "r", "_", "m", "o", "d", "e", "l", ".", "b", "i", "n">>

RECURSIVE makedirs(_, _)
\* os.makedirs(p, exist_ok=True): p and every missing ancestor
makedirs(files, p) ==
    IF p = <<>> \/ AllSlashes(p) \/ p \in files THEN files
    ELSE makedirs(files, dirname(p)) \cup {p}

\* model.save_pretrained(d): directory d holding the adapter weight file
save_pretrained(files, d) == makedirs(files, d) \cup {join(d, WEIGHTS_NAME)}

\* os.path.exists
exists(files, p) == p \in files

\* os.remove: raises when the file is missing
remove(files, p) ==
    IF p \in files THEN [files |-> files \ {p}, raised |-> FALSE]
    ELSE [files |-> files, raised |-> TRUE]

\* line 103
checkpoint_folder(out, step) == join(out, PREFIX_CHECKPOINT_DIR \o <<"-">> \o str(step))
\* line 104
peft_model_path(out, step) == join(checkpoint_folder(out, step), ADAPTER_MODEL)
\* line 107
pytorch_model_path(out, step) == join(checkpoint_folder(out, step), PYTORCH_MODEL_BIN)

\* variant of cleanup: the full-model file is left in place
cleanup_keep(files, out, step) == [files |-> files, raised |-> FALSE]

\* variant of cleanup: removal without the existence test
cleanup_unconditional(files, out, step) == remove(files, pytorch_model_path(out, step))

\* lines 107-109 as a function of the directory contents: the files left,
\* and whether an error was raised
cleanup(files, out, step) ==
    IF exists(files, pytorch_model_path(out, step))
    THEN remove(files, pytorch_model_path(out, step))
    ELSE [files |-> files, raised |-> FALSE]

(* ------------------------------- state -------------------------------- *)
VARIABLES
    args,           \* parsed command line: base_model, output_path, num_train_epochs
    launch,         \* how the script was launched: distributed, nnodes, nproc_per_node
    steps_per_epoch,\* optimizer steps per epoch (dataset size / batch size)
    pc,             \* position of the script / trainer / callback
    loaded,         \* stages completed: "preprocessors", "dataset", "model"
    global_step,    \* state.global_step
    batch,          \* <<b>>: batch handed to the transform; <<>> when none pending
    new_batch,      \* <<r>>: result of prepare_dataset for that batch
    fs,             \* set of paths that exist
    control,        \* the trainer's TrainerControl
    control_in,     \* control passed to the running on_save call
    full_at_entry,  \* whether pytorch_model.bin existed when on_save was entered
    deleted,        \* global steps whose pytorch_model.bin on_save has removed
    returned,       \* global steps for which on_save has returned
    error,          \* "none", or the exception that ended the run
    fpc,            \* per process: position around the final save (126-128)
    final_saves     \* per process: number of final save_pretrained calls

vars == <<args, launch, steps_per_epoch, pc, loaded, global_step, batch, new_batch,
          fs, control, control_in, full_at_entry, deleted, returned, error, fpc,
          final_saves>>

Controls == [should_training_stop : BOOLEAN, should_save : BOOLEAN]

\* launch modes: a plain single process, or a distributed launch of
\* nnodes * nproc_per_node processes
Launches ==
    { [distributed |-> FALSE, nnodes |-> 1, nproc_per_node |-> 1] }
    \cup [distributed : {TRUE}, nnodes : 1..MaxNodes, nproc_per_node : 1..MaxProcsPerNode]

Procs == 1..(launch.nnodes * launch.nproc_per_node)

\* training_args.local_rank of process p: -1 when not launched distributed,
\* otherwise the index of the process on its node
local_rank(p) ==
    IF launch.distributed THEN (p - 1) % launch.nproc_per_node ELSE -1

\* the process with global rank 0
Primary == 1

max_steps == args.num_train_epochs * steps_per_epoch

CallbackPcs == {"on_save_write", "on_save_cleanup", "on_save_return"}

Init ==
    /\ args \in [base_model : BaseModels, output_path : OutputPaths,
                 num_train_epochs : 0..MaxEpochs]
    /\ launch \in Launches
    /\ steps_per_epoch \in 1..MaxStepsPerEpoch
    /\ pc = "parsed"
    /\ loaded = {}
    /\ global_step = 0
    /\ batch = <<>>
    /\ new_batch = <<>>
    /\ fs = {}
    /\ control = [should_training_stop |-> FALSE, should_save |-> FALSE]
    /\ control_in = control
    /\ full_at_entry = FALSE
    /\ deleted = {}
    /\ returned = {}
    /\ error = "none"
    /\ fpc = [p \in Procs |-> "running"]
    /\ final_saves = [p \in Procs |-> 0]

\* variant of training_output_dir: the --output_path option is honoured
training_output_dir_from_args(a) == a.output_path

\* Seq2SeqTrainingArguments(output_dir="output", ...), line 78
training_output_dir(a) == output_dir

\* variant of on_save_order: cleanup before the adapter write
on_save_order_cleanup_first == <<"on_save_cleanup", "on_save_write", "on_save_return">>

\* statement order inside on_save: 105, then 107-109, then 110
on_save_order == <<"on_save_write", "on_save_cleanup", "on_save_return">>

\* the statement following position q of on_save
on_save_after(q) ==
    LET k == CHOOSE j \in 1..Len(on_save_order) : on_save_order[j] = q
    IN  on_save_order[k + 1]

\* variant of on_save_result: the callback asks the trainer to stop
on_save_result_stop(c) == [c EXCEPT !.should_training_stop = TRUE]

\* line 110: the value on_save hands back for the control it was given
on_save_result(c) == c

(* ------------------------------ actions ------------------------------- *)
\* line 38
CheckBaseModel ==
    /\ pc = "parsed"
    /\ IF OPENAI = dirname(args.base_model)
       THEN pc' = "load_preprocessors" /\ error' = error
       ELSE pc' = "config_error" /\ error' = "AssertionError"
    /\ UNCHANGED <<args, launch, steps_per_epoch, loaded, global_step, batch, new_batch,
                   fs, control, control_in, full_at_entry, deleted, returned, fpc,
                   final_saves>>

\* lines 40-42
LoadPreprocessors ==
    /\ pc = "load_preprocessors"
    /\ loaded' = loaded \cup {"preprocessors"}
    /\ pc' = "load_dataset"
    /\ UNCHANGED <<args, launch, steps_per_epoch, global_step, batch, new_batch, fs,
                   control, control_in, full_at_entry, deleted, returned, error, fpc,
                   final_saves>>

\* lines 57-61
LoadDataset ==
    /\ pc = "load_dataset"
    /\ loaded' = loaded \cup {"dataset"}
    /\ pc' = "load_model"
    /\ UNCHANGED <<args, launch, steps_per_epoch, global_step, batch, new_batch, fs,
                   control, control_in, full_at_entry, deleted, returned, error, fpc,
                   final_saves>>

\* lines 64-121: model load, adapter wrapping, trainer construction
LoadModel ==
    /\ pc = "load_model"
    /\ loaded' = loaded \cup {"model"}
    /\ pc' = "train"
    /\ UNCHANGED <<args, launch, steps_per_epoch, global_step, batch, new_batch, fs,
                   control, control_in, full_at_entry, deleted, returned, error, fpc,
                   final_saves>>

\* the data loader reads the next batch: with_transform applies prepare_dataset
AccessBatch ==
    /\ pc = "train"
    /\ global_step < max_steps
    /\ batch = <<>>
    /\ \E b \in Batches :
         /\ batch' = <<b>>
         /\ new_batch' = <<prepare_dataset(b)>>
    /\ UNCHANGED <<args, launch, steps_per_epoch, pc, loaded, global_step, fs, control,
                   control_in, full_at_entry, deleted, returned, error, fpc, final_saves>>

\* one optimizer step of trainer.train (line 124); save_strategy="epoch"
\* makes the step that ends an epoch a checkpoint event
TrainStep ==
    /\ pc = "train"
    /\ global_step < max_steps
    /\ batch # <<>>
    /\ global_step' = global_step + 1
    /\ batch' = <<>>
    /\ new_batch' = <<>>
    /\ pc' = IF global_step' % steps_per_epoch = 0 THEN "save_checkpoint" ELSE "train"
    /\ UNCHANGED <<args, launch, steps_per_epoch, loaded, fs, control, control_in,
                   full_at_entry, deleted, returned, error, fpc, final_saves>>

\* the generic trainer writes its checkpoint directory, with or without the
\* full-model file, and then calls on_save with its control
TrainerSaveCheckpoint ==
    /\ pc = "save_checkpoint"
    /\ \E wrote \in BOOLEAN, c \in Controls :
         /\ fs' = makedirs(fs, checkpoint_folder(training_output_dir(args), global_step))
                    \cup (IF wrote
                          THEN {pytorch_model_path(training_output_dir(args), global_step)}
                          ELSE {})
         /\ full_at_entry' = wrote
         /\ control' = c
         /\ control_in' = c
    /\ pc' = on_save_order[1]
    /\ UNCHANGED <<args, launch, steps_per_epoch, loaded, global_step, batch, new_batch,
                   deleted, returned, error, fpc, final_saves>>

\* variant of OnSaveWrite: the failure is caught and the callback goes on
OnSaveWrite_swallow ==
    /\ pc = "on_save_write"
    /\ \/ /\ fs' = save_pretrained(fs, peft_model_path(training_output_dir(args), global_step))
          /\ error' = error
       \/ /\ fs' = fs
          /\ error' = "save_error"
    /\ pc' = on_save_after("on_save_write")
    /\ UNCHANGED <<args, launch, steps_per_epoch, loaded, global_step, batch, new_batch,
                   control, control_in, full_at_entry, deleted, returned, fpc, final_saves>>

\* line 105: write the adapter weights; a failure is not caught
OnSaveWrite ==
    /\ pc = "on_save_write"
    /\ \/ /\ fs' = save_pretrained(fs, peft_model_path(training_output_dir(args), global_step))
          /\ pc' = on_save_after("on_save_write")
          /\ error' = error
       \/ /\ fs' = fs
          /\ pc' = "fatal"
          /\ error' = "save_error"
    /\ UNCHANGED <<args, launch, steps_per_epoch, loaded, global_step, batch, new_batch,
                   control, control_in, full_at_entry, deleted, returned, fpc, final_saves>>

\* lines 107-109
OnSaveCleanup ==
    /\ pc = "on_save_cleanup"
    /\ LET r == cleanup(fs, training_output_dir(args), global_step)
       IN  /\ fs' = r.files
           /\ deleted' = IF r.files # fs THEN deleted \cup {global_step} ELSE deleted
           /\ IF r.raised
              THEN pc' = "fatal" /\ error' = "remove_error"
              ELSE pc' = on_save_after("on_save_cleanup") /\ error' = error
    /\ UNCHANGED <<args, launch, steps_per_epoch, loaded, global_step, batch, new_batch,
                   control, control_in, full_at_entry, returned, fpc, final_saves>>

\* line 110; the trainer adopts the returned control and either goes on
\* training or leaves the loop
OnSaveReturn ==
    /\ pc = "on_save_return"
    /\ control' = on_save_result(control_in)
    /\ returned' = returned \cup {global_step}
    /\ pc' = IF control'.should_training_stop THEN "trained" ELSE "train"
    /\ UNCHANGED <<args, launch, steps_per_epoch, loaded, global_step, batch, new_batch,
                   fs, control_in, full_at_entry, deleted, error, fpc, final_saves>>

\* the process dies somewhere inside the callback
Crash ==
    /\ pc \in CallbackPcs
    /\ pc' = "crashed"
    /\ error' = "crash"
    /\ UNCHANGED <<args, launch, steps_per_epoch, loaded, global_step, batch, new_batch,
                   fs, control, control_in, full_at_entry, deleted, returned, fpc,
                   final_saves>>

\* trainer.train returns once the step budget is used up
TrainReturn ==
    /\ pc = "train"
    /\ global_step >= max_steps
    /\ pc' = "trained"
    /\ UNCHANGED <<args, launch, steps_per_epoch, loaded, global_step, batch, new_batch,
                   fs, control, control_in, full_at_entry, deleted, returned, error, fpc,
                   final_saves>>

\* lines 127-128, executed by every process of the launch
FinalSave(p) ==
    /\ pc = "trained"
    /\ fpc[p] = "running"
    /\ IF local_rank(p) = 0
       THEN /\ fs' = save_pretrained(fs, training_output_dir(args))
            /\ final_saves' = [final_saves EXCEPT ![p] = @ + 1]
       ELSE /\ fs' = fs
            /\ final_saves' = final_saves
    /\ fpc' = [fpc EXCEPT ![p] = "done"]
    /\ UNCHANGED <<args, launch, steps_per_epoch, pc, loaded, global_step, batch,
                   new_batch, control, control_in, full_at_entry, deleted, returned,
                   error>>

Next ==
    \/ CheckBaseModel
    \/ LoadPreprocessors
    \/ LoadDataset
    \/ LoadModel
    \/ AccessBatch
    \/ TrainStep
    \/ TrainerSaveCheckpoint
    \/ OnSaveWrite
    \/ OnSaveCleanup
    \/ OnSaveReturn
    \/ Crash
    \/ TrainReturn
    \/ \E p \in Procs : FinalSave(p)

Spec == Init /\ [][Next]_vars

Finished == pc = "trained" /\ \A p \in Procs : fpc[p] = "done"

(* ----------------------------- properties ----------------------------- *)
\* the literal trainer output directory of line 78 and the paths below it
OutputLiteral == <<"o", "u", "t", "p", "u", "t">>
CheckpointDirOf(n) == OutputLiteral \o <<"/">> \o PREFIX_CHECKPOINT_DIR \o <<"-">> \o str(n)
AdapterDirOf(n) == CheckpointDirOf(n) \o <<"/">> \o ADAPTER_MODEL
FullModelOf(n) == CheckpointDirOf(n) \o <<"/">> \o PYTORCH_MODEL_BIN
FinalWeights == OutputLiteral \o <<"/">> \o WEIGHTS_NAME

\* f lies strictly inside directory d
IsUnder(f, d) == Len(f) > Len(d) + 1 /\ SubSeq(f, 1, Len(d) + 1) = d \o <<"/">>

\* the part of id before its last slash is 'openai' (up to trailing slashes)
UnderOpenAI(id) ==
    \E k \in (Len(OPENAI) + 1)..(Len(id) - 1) :
        /\ SubSeq(id, 1, Len(OPENAI)) = OPENAI
        /\ \A j \in (Len(OPENAI) + 1)..k : id[j] = "/"
        /\ \A j \in (k + 1)..Len(id) : id[j] # "/"

FinalSaveCount(S) == Cardinality({p \in S : final_saves[p] >= 1})

\* C1: for every checkpoint event at step N, once on_save has returned,
\* checkpoint-N/adapter_model exists and checkpoint-N/pytorch_model.bin does
\* not, whether or not the trainer wrote the latter first.
C1_CheckpointAfterOnSave ==
    \A n \in returned : AdapterDirOf(n) \in fs /\ FullModelOf(n) \notin fs

C1_Witness ==
    \E n \in returned : n \in deleted /\ AdapterDirOf(n) \in fs

\* C2: over a whole run that completes training, in any launch mode, the
\* intermediate checkpoints hold only adapter weights and the final model is
\* written exactly once, after training, to the output directory.
C2_FinalSavedExactlyOnce ==
    Finished =>
        /\ \A n \in returned : AdapterDirOf(n) \in fs /\ FullModelOf(n) \notin fs
        /\ FinalSaveCount(Procs) = 1
        /\ \A p \in Procs : final_saves[p] <= 1
        /\ FinalWeights \in fs

\* C3: a base-model identifier outside the 'openai' namespace ends the run
\* in the configuration-error state with no preprocessor, dataset or model
\* load and no training step before it.
C3_FailFastOnBadNamespace ==
    ~UnderOpenAI(args.base_model) =>
        /\ pc \in {"parsed", "config_error"}
        /\ pc = "config_error" => error = "AssertionError"
        /\ loaded = {}
        /\ global_step = 0
        /\ batch = <<>>
        /\ fs = {}

C3_Witness ==
    pc = "config_error" /\ ~UnderOpenAI(args.base_model) /\ Len(args.base_model) > 1

\* C4: the adapter write precedes the deletion of the full-model file: no
\* state, a crash inside the callback included, has a checkpoint whose
\* full-model file on_save deleted while its adapter checkpoint is missing.
C4_NoDeletionWithoutAdapter ==
    /\ \A n \in deleted : AdapterDirOf(n) \in fs
    /\ (pc = "crashed" /\ full_at_entry /\ AdapterDirOf(global_step) \notin fs)
          => FullModelOf(global_step) \in fs

C4_Witness ==
    /\ pc = "crashed"
    /\ AdapterDirOf(global_step) \in fs
    /\ FullModelOf(global_step) \in fs

\* C5: in a multi-process run the final write to the output directory is
\* performed by the primary process, by no other process, and once.
C5_OnlyPrimaryWritesFinal ==
    (launch.distributed /\ Cardinality(Procs) > 1 /\ Finished) =>
        /\ final_saves[Primary] = 1
        /\ \A p \in Procs \ {Primary} : final_saves[p] = 0

\* C6: the cleanup step is idempotent: on a checkpoint directory without the
\* full-model file it raises nothing and changes nothing, and applying it
\* twice leaves what applying it once leaves.
C6_CleanupIdempotent ==
    \A n \in 0..global_step :
        LET once == cleanup(fs, OutputLiteral, n)
            twice == cleanup(once.files, OutputLiteral, n)
        IN  /\ ~once.raised
            /\ ~twice.raised
            /\ twice.files = once.files
            /\ FullModelOf(n) \notin once.files
            /\ FullModelOf(n) \notin fs => once.files = fs

C6_Witness ==
    pc = "on_save_return" /\ ~full_at_entry /\ FullModelOf(global_step) \notin fs

\* C7: prepare_dataset returns input_features and labels of the length of
\* the input batch (the empty batch included), and the pair at index i is
\* derived from the audio and the sentence of record i.
C7_PrepareDatasetOrderAndLength ==
    batch # <<>> =>
        LET b == batch[1]
            r == new_batch[1]
        IN  /\ Len(r.input_features) = Len(b.audio)
            /\ Len(r.labels) = Len(b.sentence)
            /\ \A i \in 1..Len(b.audio) :
                 r.input_features[i] =
                     feature_extractor(b.audio[i].array, b.audio[i].sampling_rate)
            /\ \A i \in 1..Len(b.sentence) : r.labels[i] = tokenizer(b.sentence[i])

C7_Witness ==
    /\ batch # <<>>
    /\ Len(batch[1].audio) = 2
    /\ batch[1].audio[1] # batch[1].audio[2]
    /\ batch[1].sentence[1] # batch[1].sentence[2]
    /\ new_batch[1].input_features[1] # new_batch[1].input_features[2]

\* C8: on_save hands back the control it received with no field changed,
\* and while it runs it changes nothing but files inside the checkpoint
\* directory of the current step.
C8_OnSaveFrame ==
    [][ (pc \in CallbackPcs /\ pc' # "crashed") =>
          /\ \A f \in (fs' \ fs) \cup (fs \ fs') : IsUnder(f, CheckpointDirOf(global_step))
          /\ UNCHANGED <<args, launch, steps_per_epoch, loaded, global_step, batch,
                         new_batch, control_in, fpc, final_saves>>
          /\ pc = "on_save_return" => control' = control_in
          /\ pc # "on_save_return" => control' = control ]_vars

C8_Witness ==
    /\ pc = "train"
    /\ global_step \in returned
    /\ control = control_in
    /\ control.should_save

\* C9: a failure of the adapter write is not caught: the run is over (no
\* further step of any kind, no final save), on_save has not returned, and
\* the full-model file of that checkpoint is still there if it was written.
C9_WriteFailureIsFatal ==
    /\ [](error = "save_error" =>
            /\ pc = "fatal"
            /\ global_step \notin returned
            /\ full_at_entry => FullModelOf(global_step) \in fs
            /\ \A p \in Procs : fpc[p] = "running" /\ final_saves[p] = 0)
    /\ [][error = "save_error" => UNCHANGED vars]_vars

C9_Witness ==
    error = "save_error" /\ full_at_entry /\ FullModelOf(global_step) \in fs

====
